---- MODULE Spec2Model ----
(***************************************************************************)
(* Model of the dependency core of Raft (src/src/raft/vcs.ts):             *)
(* GitRepository, RepositoryDependency, CMakeDependency and getDependency. *)
(* A run is one call of a public entry point.  Every external process      *)
(* (git clone / checkout / apply, the CMake steps) is a pending promise    *)
(* that resolves or rejects in a later step; every action is the code that *)
(* runs from one such settlement to the next suspension point.             *)
(***************************************************************************)
EXTENDS Integers, Sequences, FiniteSets, TLC

\* ---------------------------------------------------------------- bounds
NumRuns == 2
MaxPatches == 2

Runs == 1..NumRuns
PatchPaths == 1..MaxPatches

\* ------------------------------------------------------- build-config.ts
Platform == {"Host"}
Architecture == {"Host"}
Build == [platform : Platform, architecture : Architecture, isDeploy : BOOLEAN]

\* A JavaScript property read: the value when the object has the property,
\* undefined otherwise.
Undefined == [defined |-> FALSE, val |-> FALSE]
Defined(v) == [defined |-> TRUE, val |-> v]
GetProperty(obj, field) ==
    IF field \in DOMAIN obj THEN Defined(obj[field]) ELSE Undefined

\* ------------------------------------------------ dependency descriptors
\* The dependencies of the build: "zlib" is a CMakeDependency whose
\* repository has a branch and which carries every patch, in array order;
\* "png" is a CMakeDependency without branch and without patches; "catch"
\* is a plain RepositoryDependency without branch, with one patch.
Dependencies == {"zlib", "png", "catch"}
DependencyKind(name) ==
    IF name \in {"zlib", "png"} THEN "CMakeDependency" ELSE "RepositoryDependency"
DependencyPatches(name) ==
    IF name = "zlib" THEN [i \in 1..MaxPatches |-> i]
    ELSE IF name = "png" THEN <<>>
    ELSE <<MaxPatches>>
ConfigOptions(name) ==
    IF name = "zlib" THEN {<<"FOO", "bar">>}
    ELSE IF name = "png" THEN {<<"PNG_SHARED", "OFF">>}
    ELSE {}
RepositoryBranch(name) ==
    IF name = "zlib" THEN "release" ELSE ""

\* ------------------------------------------------------- project layout
BuildName(b) == IF b.isDeploy THEN "deploy" ELSE "debug"
dirForDependency(name) == <<"dependencies", name>>
dirForDependencyBuild(name, b) == <<"build", BuildName(b), name>>
dirForDependencyInstall(b) == <<"install", BuildName(b)>>

\* instantiateRepositoryTemplate: the directory a template is instantiated
\* into, and `destination.append(".template")`.
TemplateDestination == <<"project">>
TemplateLocation(destination) == destination \o <<".template">>

\* ------------------------------------------------------- CMake options
CMakeOptionsCreate(installLocation) ==
    [installPrefix |-> installLocation, release |-> Undefined,
     platform |-> "", configOptions |-> {}]
isReleaseBuild(o, v) == [o EXCEPT !.release = v]
platform(o, p) == [o EXCEPT !.platform = p]
configOptions(o, c) == [o EXCEPT !.configOptions = c]
NoOptions == CMakeOptionsCreate(<<>>)

\* ------------------------------------------------------------- state
VARIABLES
    build,       \* the Build value of this build invocation
    dirs,        \* the directories that exist on the filesystem
    patchFiles,  \* the patch files that exist on the filesystem
    applied,     \* per dependency directory, the patches applied to it
    pc,          \* per run, where the call is suspended
    call,        \* per run, the entry point called and its arguments
    idx,         \* per run, the position of the for-of loop over patches
    trace,       \* per run, what the call has done so far, in order
    result       \* per run, how the returned promise settled

vars == <<build, dirs, patchFiles, applied, pc, call, idx, trace, result>>

NoCall == [op |-> "none", name |-> "none", patch |-> 0]
Pending == [status |-> "pending", error |-> [op |-> "none", patch |-> 0]]
Resolved == [status |-> "resolved", error |-> [op |-> "none", patch |-> 0]]
Rejected(e) == [status |-> "rejected", error |-> e]

\* An entry of a run's trace: a progress log line, the invocation of an
\* operation, the start of an external process, or a settlement.
Ev(k, op, p, o) == [k |-> k, op |-> op, patch |-> p, opts |-> o]
Log(msg) == Ev("log", msg, 0, NoOptions)
Call(op, p) == Ev("call", op, p, NoOptions)
Exec(op, p) == Ev("exec", op, p, NoOptions)
Ok(op, p) == Ev("ok", op, p, NoOptions)
Err(op, p) == Ev("err", op, p, NoOptions)
\* The value a called method returned: "promise" or "null".
Returned(v) == Ev("return", v, 0, NoOptions)
\* The error a failing external process rejects with.
ErrorOf(op, p) == [op |-> op, patch |-> p]

Init ==
    /\ build \in Build
    /\ dirs = {}
    /\ patchFiles \in SUBSET PatchPaths
    /\ applied = [n \in Dependencies |-> {}]
    /\ pc = [r \in Runs |-> "idle"]
    /\ call = [r \in Runs |-> NoCall]
    /\ idx = [r \in Runs |-> 0]
    /\ trace = [r \in Runs |-> <<>>]
    /\ result = [r \in Runs |-> Pending]

\* ------------------------------------------------- decisions of the code
\* The existence check left out: every call fetches.
DownloadIsNoOp_Never(dirExists) == FALSE

\* RepositoryDependency.download: `if (dependencyDir.exists()) return;`
DownloadIsNoOp(dirExists) == dirExists

\* The test of getGitRepo the wrong way round.
ShouldClone_Inverted(destinationExists) == destinationExists

\* getGitRepo: `if (!destination.exists())` clone, else Promise.resolve().
ShouldClone(destinationExists) == ~destinationExists

\* A download that checks out whether or not a branch is configured.
HasBranch_Always(branch) == TRUE

\* GitRepository.download: `if (this.branch)`; an absent branch is falsy.
HasBranch(branch) == branch # ""

\* Only the directory checked.
ShouldApply_DirOnly(dirExists, patchExists) == dirExists

\* GitRepository.patch: `if (repoDirectory.exists() && patch.exists())`.
ShouldApply(dirExists, patchExists) == dirExists /\ patchExists

\* A loop that steps over every other entry, and one that stops an entry early.
NextPatch_Skip(i) == i + 2
LoopDone_OffByOne(patches, i) == i >= Len(patches)

\* `for (let patch of this.patches)`: the loop visits index 1, 2, ... and
\* ends after the last entry.
NextPatch(i) == i + 1
LoopDone(patches, i) == i > Len(patches)

\* The rejection swallowed (a try/catch around the await).
awaitThrows_Swallowed(status) == FALSE

\* `await p` inside an async function: a rejected p is thrown at the await,
\* which ends the function and rejects its promise.
awaitThrows(status) == status = "rejected"

\* The callback registered for both outcomes (as with p.finally).
thenCallbackRuns_Always(status) == TRUE

\* `p.then(callback)` with a single argument: the callback runs when p is
\* fulfilled; a rejection skips it and rejects the derived promise.
thenCallbackRuns(status) == status = "resolved"

\* A handler that rethrows an error of its own.
Propagate_Wrapped(e) == [op |-> "getDependency", patch |-> 0]

\* No handler of the chain catches: the caller sees the error unchanged.
Propagate(e) == e

\* The chain going on after a rejected step, and the chain without build.
NextBackendStep_NoAbort(step, status) ==
    IF step = "cmake.configure" THEN "cmake.build"
    ELSE IF step = "cmake.build" THEN "cmake.install"
    ELSE "done"
NextBackendStep_SkipBuild(step, status) ==
    IF status = "rejected" THEN "rejected"
    ELSE IF step = "cmake.configure" THEN "cmake.install"
    ELSE "done"

\* A chain whose last callback returns a promise that nothing settles.
NextBackendStep_Unsettled(step, status) ==
    IF status = "rejected" THEN "rejected"
    ELSE IF step = "cmake.configure" THEN "cmake.build"
    ELSE IF step = "cmake.build" THEN "cmake.install"
    ELSE "cmake.unsettled"

\* CMakeDependency.buildInstall: configure().then(build).then(install).
NextBackendStep(step, status) ==
    IF status = "rejected" THEN "rejected"
    ELSE IF step = "cmake.configure" THEN "cmake.build"
    ELSE IF step = "cmake.build" THEN "cmake.install"
    ELSE "done"

\* What buildInstall hands back to its caller: CMakeDependency returns the
\* promise of its chain, RepositoryDependency executes `return null`.
buildInstallReturns(kind) ==
    IF kind = "CMakeDependency" THEN "promise" ELSE "null"

\* Options whose install prefix is the dependency's own build directory.
cmakeOptions_OwnPrefix(name, b) ==
    configOptions(
        platform(
            isReleaseBuild(
                CMakeOptionsCreate(dirForDependencyBuild(name, b)),
                GetProperty(b, "releaseBuild")),
            b.platform),
        ConfigOptions(name))

\* The options object CMakeDependency.buildInstall hands to CMake.configure.
cmakeOptions(name, b) ==
    configOptions(
        platform(
            isReleaseBuild(
                CMakeOptionsCreate(dirForDependencyInstall(b)),
                GetProperty(b, "releaseBuild")),
            b.platform),
        ConfigOptions(name))

\* ------------------------------------------------------------- plumbing
CurrentPatch(r) ==
    IF call[r].op = "getDependency"
    THEN DependencyPatches(call[r].name)[idx[r]]
    ELSE call[r].patch

\* One step of run r: it moves to newpc, appends evs to its trace, leaves
\* its loop index at i and its promise at res.
Step(r, newpc, evs, i, res) ==
    /\ pc' = [pc EXCEPT ![r] = newpc]
    /\ trace' = [trace EXCEPT ![r] = @ \o evs]
    /\ idx' = [idx EXCEPT ![r] = i]
    /\ result' = [result EXCEPT ![r] = res]

\* The promise of dependency.download settles as rejected with e: the
\* first .then of getDependency decides what runs next.
DownloadRejected(r, evs, e) ==
    IF thenCallbackRuns("rejected")
    THEN Step(r, "downloaded", evs \o <<Err("dep.download", 0)>>, idx[r], result[r])
    ELSE Step(r, "Failed", evs \o <<Err("dep.download", 0)>>, idx[r],
              Rejected(Propagate(e)))

\* The promise of dependency.download settles as resolved.
DownloadResolved(r, evs) ==
    IF thenCallbackRuns("resolved")
    THEN Step(r, "downloaded", evs \o <<Ok("dep.download", 0)>>, idx[r], result[r])
    ELSE Step(r, "built", evs \o <<Ok("dep.download", 0)>>, idx[r], result[r])

\* The promise of repository.download settles as rejected with e.
RepoDownloadRejected(r, evs, e) ==
    IF call[r].op = "getDependency"
    THEN IF awaitThrows("rejected")
         THEN DownloadRejected(r, evs \o <<Err("repo.download", 0)>>, e)
         ELSE Step(r, "patching", evs \o <<Err("repo.download", 0)>>, 1, result[r])
    ELSE Step(r, "done", evs \o <<Err("repo.download", 0)>>, idx[r], Rejected(e))

\* The promise of repository.download settles as resolved: the caller's
\* await resumes (RepositoryDependency.download enters its patch loop,
\* instantiateRepositoryTemplate starts instantiateTemplate).
RepoDownloadResolved(r, evs) ==
    IF call[r].op = "getDependency"
    THEN Step(r, "patching", evs \o <<Ok("repo.download", 0)>>, 1, result[r])
    ELSE IF call[r].op = "template"
    THEN Step(r, "instantiate",
              evs \o <<Ok("repo.download", 0), Call("instantiateTemplate", 0)>>,
              idx[r], result[r])
    ELSE Step(r, "done", evs \o <<Ok("repo.download", 0)>>, idx[r], Resolved)

\* The destination of the download a run has in progress.
Destination(r) ==
    IF call[r].op = "template"
    THEN TemplateLocation(TemplateDestination)
    ELSE dirForDependency(call[r].name)

\* GitRepository.download up to its first await: getGitRepo(uri, destination).
GitRepositoryDownloadTo(r, destination, evs) ==
    IF ShouldClone(destination \in dirs)
    THEN Step(r, "clone", evs \o <<Call("repo.download", 0), Exec("git.clone", 0)>>,
              idx[r], result[r])
    ELSE Step(r, "cloned", evs \o <<Call("repo.download", 0)>>, idx[r], result[r])

\* The same, into the source directory of a dependency.
GitRepositoryDownload(r, name, evs) ==
    GitRepositoryDownloadTo(r, dirForDependency(name), evs)

\* --------------------------------------------------------- entry points
\* getDependency without the chaining: download is started and not waited
\* for, and buildInstall is called in the same turn.
GetDependency_NoWait(r, name) ==
    /\ pc[r] = "idle"
    /\ call' = [call EXCEPT ![r] = [op |-> "getDependency", name |-> name, patch |-> 0]]
    /\ Step(r, IF DependencyKind(name) = "CMakeDependency" THEN "cmake.configure" ELSE "built",
            <<Log("Downloading"), Call("dep.download", 0),
              Log("Building"), Call("dep.buildInstall", 0)>>, idx[r], result[r])
    /\ UNCHANGED <<build, dirs, patchFiles, applied>>

\* getDependency(project, build, dependency), up to the first suspension.
GetDependency(r, name) ==
    /\ pc[r] = "idle"
    /\ call' = [call EXCEPT ![r] = [op |-> "getDependency", name |-> name, patch |-> 0]]
    /\ LET evs == <<Log("Downloading"), Call("dep.download", 0)>>
       IN  IF DownloadIsNoOp(dirForDependency(name) \in dirs)
           THEN DownloadResolved(r, evs)
           ELSE GitRepositoryDownload(r, name, evs)
    /\ UNCHANGED <<build, dirs, patchFiles, applied>>

\* repository.download(destination) called by another client of Repository.
RepositoryDownload(r, name) ==
    /\ pc[r] = "idle"
    /\ call' = [call EXCEPT ![r] = [op |-> "download", name |-> name, patch |-> 0]]
    /\ GitRepositoryDownload(r, name, <<>>)
    /\ UNCHANGED <<build, dirs, patchFiles, applied>>

\* repository.patch(repoDirectory, patch) called by another client.
RepositoryPatch(r, name, p) ==
    /\ pc[r] = "idle"
    /\ call' = [call EXCEPT ![r] = [op |-> "patch", name |-> name, patch |-> p]]
    /\ IF ShouldApply(dirForDependency(name) \in dirs, p \in patchFiles)
       THEN Step(r, "apply", <<Call("repo.patch", p), Exec("git.apply", p)>>,
                 idx[r], result[r])
       ELSE Step(r, "done", <<Call("repo.patch", p), Ok("repo.patch", p)>>,
                 idx[r], Resolved)
    /\ UNCHANGED <<build, dirs, patchFiles, applied>>

\* ------------------------------------------------------ GitRepository
\* The git clone process ends.
CloneDone(r, ok) ==
    /\ pc[r] = "clone"
    /\ IF ok
       THEN /\ dirs' = dirs \cup {Destination(r)}
            /\ Step(r, "cloned", <<Ok("git.clone", 0)>>, idx[r], result[r])
       ELSE /\ dirs' = dirs
            /\ RepoDownloadRejected(r, <<Err("git.clone", 0)>>, ErrorOf("git.clone", 0))
    /\ UNCHANGED <<build, patchFiles, applied, call>>

\* GitRepository.download resumes after `await getGitRepo(...)`.
ResumeDownload(r) ==
    /\ pc[r] = "cloned"
    /\ IF HasBranch(RepositoryBranch(call[r].name))
       THEN Step(r, "checkout", <<Exec("git.checkout", 0)>>, idx[r], result[r])
       ELSE RepoDownloadResolved(r, <<>>)
    /\ UNCHANGED <<build, dirs, patchFiles, applied, call>>

\* The git checkout process ends.
CheckoutDone(r, ok) ==
    /\ pc[r] = "checkout"
    /\ IF ok
       THEN RepoDownloadResolved(r, <<Ok("git.checkout", 0)>>)
       ELSE RepoDownloadRejected(r, <<Err("git.checkout", 0)>>,
                                 ErrorOf("git.checkout", 0))
    /\ UNCHANGED <<build, dirs, patchFiles, applied, call>>

\* --------------------------------------------- RepositoryDependency
\* One turn of the loop over this.patches in RepositoryDependency.download,
\* with the synchronous part of GitRepository.patch.
PatchLoop(r) ==
    /\ pc[r] = "patching"
    /\ LET name == call[r].name
           patches == DependencyPatches(name)
           i == idx[r]
       IN  IF LoopDone(patches, i)
           THEN DownloadResolved(r, <<>>)
           ELSE IF ShouldApply(dirForDependency(name) \in dirs, patches[i] \in patchFiles)
                THEN Step(r, "apply",
                          <<Call("repo.patch", patches[i]), Exec("git.apply", patches[i])>>,
                          i, result[r])
                ELSE Step(r, "patching",
                          <<Call("repo.patch", patches[i]), Ok("repo.patch", patches[i])>>,
                          NextPatch(i), result[r])
    /\ UNCHANGED <<build, dirs, patchFiles, applied, call>>

\* The git apply process ends.
ApplyDone(r, ok) ==
    /\ pc[r] = "apply"
    /\ LET p == CurrentPatch(r)
           name == call[r].name
       IN  IF ok
           THEN /\ applied' = [applied EXCEPT ![name] = @ \cup {p}]
                /\ IF call[r].op = "getDependency"
                   THEN Step(r, "patching", <<Ok("git.apply", p), Ok("repo.patch", p)>>,
                             NextPatch(idx[r]), result[r])
                   ELSE Step(r, "done", <<Ok("git.apply", p), Ok("repo.patch", p)>>,
                             idx[r], Resolved)
           ELSE /\ applied' = applied
                /\ IF call[r].op = "getDependency"
                   THEN IF awaitThrows("rejected")
                        THEN DownloadRejected(r, <<Err("git.apply", p), Err("repo.patch", p)>>,
                                              ErrorOf("git.apply", p))
                        ELSE Step(r, "patching",
                                  <<Err("git.apply", p), Err("repo.patch", p)>>,
                                  NextPatch(idx[r]), result[r])
                   ELSE Step(r, "done", <<Err("git.apply", p), Err("repo.patch", p)>>,
                             idx[r], Rejected(ErrorOf("git.apply", p)))
    /\ UNCHANGED <<build, dirs, patchFiles, call>>

\* ------------------------------------------------------------ template
\* The removal callback resolving only when rimraf reported no error.
rimrafSettles_OnError(err) == IF err THEN "rejected" ELSE "resolved"

\* instantiateRepositoryTemplate: `rimraf(..., (err) => { resolve(); })`.
rimrafSettles(err) == "resolved"

\* instantiateRepositoryTemplate(repo, destination, context), up to the
\* first suspension; the repository is the one of dependency `name`.
InstantiateRepositoryTemplate(r, name) ==
    /\ pc[r] = "idle"
    /\ call' = [call EXCEPT ![r] = [op |-> "template", name |-> name, patch |-> 0]]
    /\ GitRepositoryDownloadTo(r, TemplateLocation(TemplateDestination), <<>>)
    /\ UNCHANGED <<build, dirs, patchFiles, applied>>

\* instantiateTemplate: the stream emits "finish" (ok) or "error"; on
\* "error" the await throws and rimraf is never called.
InstantiateDone(r, ok) ==
    /\ pc[r] = "instantiate"
    /\ IF ok
       THEN /\ dirs' = dirs \cup {TemplateDestination}
            /\ Step(r, "rimraf", <<Ok("instantiateTemplate", 0), Exec("rimraf", 0)>>,
                    idx[r], result[r])
       ELSE /\ dirs' = dirs
            /\ IF awaitThrows("rejected")
               THEN Step(r, "done", <<Err("instantiateTemplate", 0)>>, idx[r],
                         Rejected(ErrorOf("instantiateTemplate", 0)))
               ELSE Step(r, "rimraf", <<Err("instantiateTemplate", 0), Exec("rimraf", 0)>>,
                         idx[r], result[r])
    /\ UNCHANGED <<build, patchFiles, applied, call>>

\* rimraf calls back, with or without an error.
RimrafDone(r, ok) ==
    /\ pc[r] = "rimraf"
    /\ dirs' = IF ok THEN dirs \ {TemplateLocation(TemplateDestination)} ELSE dirs
    /\ Step(r, "done", <<IF ok THEN Ok("rimraf", 0) ELSE Err("rimraf", 0)>>, idx[r],
            IF rimrafSettles(~ok) = "resolved"
            THEN Resolved ELSE Rejected(ErrorOf("rimraf", 0)))
    /\ UNCHANGED <<build, patchFiles, applied, call>>

\* ------------------------------------------------------- getDependency
\* The first callback without its `return`: buildInstall is started and the
\* derived promise is fulfilled at once, so the second callback runs next.
ThenBuilding_NoReturn(r) ==
    /\ pc[r] = "downloaded"
    /\ Step(r, "built", <<Log("Building"), Call("dep.buildInstall", 0)>>, idx[r], result[r])
    /\ UNCHANGED <<build, dirs, patchFiles, applied, call>>

\* The first .then callback: log "Building" and call dependency.buildInstall,
\* up to its suspension.  RepositoryDependency.buildInstall returns null,
\* which fulfils the derived promise at once.
ThenBuilding(r) ==
    /\ pc[r] = "downloaded"
    /\ LET name == call[r].name
           evs == <<Log("Building"), Call("dep.buildInstall", 0)>>
           ret == <<Returned(buildInstallReturns(DependencyKind(name)))>>
       IN  IF DependencyKind(name) = "CMakeDependency"
           THEN Step(r, "cmake.configure",
                     evs \o <<Ev("call", "cmake.configure", 0, cmakeOptions(name, build))>>
                         \o ret,
                     idx[r], result[r])
           ELSE Step(r, "built", evs \o ret \o <<Ok("dep.buildInstall", 0)>>,
                     idx[r], result[r])
    /\ UNCHANGED <<build, dirs, patchFiles, applied, call>>

\* What a successful backend step leaves on the filesystem.
BackendEffect(step, name, b) ==
    IF step = "cmake.configure" THEN {dirForDependencyBuild(name, b)}
    ELSE IF step = "cmake.install" THEN {dirForDependencyInstall(b)}
    ELSE {}

\* A CMake process ends and the chain of CMakeDependency.buildInstall goes on.
BackendDone(r, step, ok) ==
    /\ pc[r] = step
    /\ dirs' = IF ok THEN dirs \cup BackendEffect(step, call[r].name, build) ELSE dirs
    /\ LET status == IF ok THEN "resolved" ELSE "rejected"
           ev == IF ok THEN Ok(step, 0) ELSE Err(step, 0)
           next == NextBackendStep(step, status)
       IN  IF next = "rejected"
           THEN Step(r, "Failed", <<ev, Err("dep.buildInstall", 0)>>, idx[r],
                     Rejected(Propagate(ErrorOf(step, 0))))
           ELSE IF next = "done"
           THEN Step(r, "built", <<ev, Ok("dep.buildInstall", 0)>>, idx[r], result[r])
           ELSE Step(r, next, <<ev, Call(next, 0)>>, idx[r], result[r])
    /\ UNCHANGED <<build, patchFiles, applied, call>>

ConfigureDone(r, ok) == BackendDone(r, "cmake.configure", ok)
BuildDone(r, ok) == BackendDone(r, "cmake.build", ok)
InstallDone(r, ok) == BackendDone(r, "cmake.install", ok)

\* The second .then callback: log "Ready"; the returned promise resolves.
ThenReady(r) ==
    /\ pc[r] = "built"
    /\ Step(r, "Ready", <<Log("Ready")>>, idx[r], Resolved)
    /\ UNCHANGED <<build, dirs, patchFiles, applied, call>>

\* The caller has seen the promise settle; the run is over.
Return(r) ==
    /\ pc[r] \in {"Ready", "Failed", "done"}
    /\ pc' = [pc EXCEPT ![r] = "idle"]
    /\ call' = [call EXCEPT ![r] = NoCall]
    /\ idx' = [idx EXCEPT ![r] = 0]
    /\ trace' = [trace EXCEPT ![r] = <<>>]
    /\ result' = [result EXCEPT ![r] = Pending]
    /\ UNCHANGED <<build, dirs, patchFiles, applied>>

\* ------------------------------------------------------ specifications
\* The caller of the observed system drives one call at a time.
NoCallInFlight == \A q \in Runs : pc[q] = "idle"

Next ==
    \/ \E r \in Runs, name \in Dependencies : NoCallInFlight /\ GetDependency(r, name)
    \/ \E r \in Runs, name \in Dependencies : NoCallInFlight /\ RepositoryDownload(r, name)
    \/ \E r \in Runs, name \in Dependencies, p \in PatchPaths :
           NoCallInFlight /\ RepositoryPatch(r, name, p)
    \/ \E r \in Runs, ok \in BOOLEAN : CloneDone(r, ok)
    \/ \E r \in Runs : ResumeDownload(r)
    \/ \E r \in Runs, ok \in BOOLEAN : CheckoutDone(r, ok)
    \/ \E r \in Runs : PatchLoop(r)
    \/ \E r \in Runs, ok \in BOOLEAN : ApplyDone(r, ok)
    \/ \E r \in Runs : ThenBuilding(r)
    \/ \E r \in Runs, ok \in BOOLEAN : ConfigureDone(r, ok)
    \/ \E r \in Runs, ok \in BOOLEAN : BuildDone(r, ok)
    \/ \E r \in Runs, ok \in BOOLEAN : InstallDone(r, ok)
    \/ \E r \in Runs : ThenReady(r)
    \/ \E r \in Runs : Return(r)

Spec == Init /\ [][Next]_vars

TypeOK ==
    /\ build \in Build
    /\ patchFiles \subseteq PatchPaths
    /\ \A r \in Runs : result[r].status \in {"pending", "resolved", "rejected"}

\* Two callers that build CMake dependencies and do not wait for each
\* other: a call may start while at most one other is in flight, and the
\* two interleave at every suspension point.
CMakeDependencies == {n \in Dependencies : DependencyKind(n) = "CMakeDependency"}
InFlight == {q \in Runs : pc[q] # "idle"}
RoomForCall == \A a, b \in InFlight : a = b

NextConcurrent ==
    \/ \E r \in Runs, name \in CMakeDependencies : RoomForCall /\ GetDependency(r, name)
    \/ \E r \in Runs, ok \in BOOLEAN : CloneDone(r, ok)
    \/ \E r \in Runs : ResumeDownload(r)
    \/ \E r \in Runs, ok \in BOOLEAN : CheckoutDone(r, ok)
    \/ \E r \in Runs : PatchLoop(r)
    \/ \E r \in Runs, ok \in BOOLEAN : ApplyDone(r, ok)
    \/ \E r \in Runs : ThenBuilding(r)
    \/ \E r \in Runs, ok \in BOOLEAN : ConfigureDone(r, ok)
    \/ \E r \in Runs, ok \in BOOLEAN : BuildDone(r, ok)
    \/ \E r \in Runs, ok \in BOOLEAN : InstallDone(r, ok)
    \/ \E r \in Runs : ThenReady(r)
    \/ \E r \in Runs : Return(r)

SpecConcurrent == Init /\ [][NextConcurrent]_vars

\* A caller that tries a dependency again once the previous attempt has
\* settled: the settled attempts it still holds are for that dependency.
NoCallRunning == \A q \in Runs : pc[q] \in {"idle", "Ready", "Failed", "done"}
IsRetry(name) == \A q \in Runs : pc[q] # "idle" => call[q].name = name

NextSequence ==
    \/ \E r \in Runs, name \in Dependencies :
           NoCallRunning /\ IsRetry(name) /\ GetDependency(r, name)
    \/ \E r \in Runs, ok \in BOOLEAN : CloneDone(r, ok)
    \/ \E r \in Runs : ResumeDownload(r)
    \/ \E r \in Runs, ok \in BOOLEAN : CheckoutDone(r, ok)
    \/ \E r \in Runs : PatchLoop(r)
    \/ \E r \in Runs, ok \in BOOLEAN : ApplyDone(r, ok)
    \/ \E r \in Runs : ThenBuilding(r)
    \/ \E r \in Runs, ok \in BOOLEAN : ConfigureDone(r, ok)
    \/ \E r \in Runs, ok \in BOOLEAN : BuildDone(r, ok)
    \/ \E r \in Runs, ok \in BOOLEAN : InstallDone(r, ok)
    \/ \E r \in Runs : ThenReady(r)
    \/ \E r \in Runs : Return(r)

SpecSequence == Init /\ [][NextSequence]_vars

\* getDependency runs one after the other, where every process that was
\* started ends and the event loop runs every callback that is due.
Progress(r) ==
    \/ \E ok \in BOOLEAN : CloneDone(r, ok)
    \/ ResumeDownload(r)
    \/ \E ok \in BOOLEAN : CheckoutDone(r, ok)
    \/ PatchLoop(r)
    \/ \E ok \in BOOLEAN : ApplyDone(r, ok)
    \/ ThenBuilding(r)
    \/ \E ok \in BOOLEAN : ConfigureDone(r, ok)
    \/ \E ok \in BOOLEAN : BuildDone(r, ok)
    \/ \E ok \in BOOLEAN : InstallDone(r, ok)
    \/ ThenReady(r)

NextLive ==
    \/ \E r \in Runs, name \in Dependencies : NoCallInFlight /\ GetDependency(r, name)
    \/ \E r \in Runs : Progress(r)
    \/ \E r \in Runs : Return(r)

SpecLive == Init /\ [][NextLive]_vars /\ \A r \in Runs : WF_vars(Progress(r))

\* Template instantiations, one at a time.
NextTemplate ==
    \/ \E r \in Runs, name \in Dependencies :
           NoCallInFlight /\ InstantiateRepositoryTemplate(r, name)
    \/ \E r \in Runs, ok \in BOOLEAN : CloneDone(r, ok)
    \/ \E r \in Runs : ResumeDownload(r)
    \/ \E r \in Runs, ok \in BOOLEAN : CheckoutDone(r, ok)
    \/ \E r \in Runs, ok \in BOOLEAN : InstantiateDone(r, ok)
    \/ \E r \in Runs, ok \in BOOLEAN : RimrafDone(r, ok)
    \/ \E r \in Runs : Return(r)

SpecTemplate == Init /\ [][NextTemplate]_vars

Is(e, k, op) == e.k = k /\ e.op = op
Has(t, k, op) == \E i \in 1..Len(t) : Is(t[i], k, op)
HasBefore(t, i, k, op, p) ==
    \E j \in 1..(i - 1) : Is(t[j], k, op) /\ t[j].patch = p
IsPrefix(s, t) == Len(s) <= Len(t) /\ \A i \in 1..Len(s) : s[i] = t[i]

RepositoryOps == {"repo.download", "repo.patch"}
BackendSteps == {"cmake.configure", "cmake.build", "cmake.install"}
Processes == {"git.clone", "git.checkout", "git.apply"} \cup BackendSteps

\* The operations among ops that the trace shows invoked, in order, each as
\* <<operation, patch>>.
CallsOf(t, ops) ==
    LET c == SelectSeq(t, LAMBDA e : e.k = "call" /\ e.op \in ops)
    IN  [i \in 1..Len(c) |-> <<c[i].op, c[i].patch>>]

PatchCalls(name) == [i \in 1..Len(DependencyPatches(name)) |->
                        <<"repo.patch", DependencyPatches(name)[i]>>]
BackendCalls == <<<<"cmake.configure", 0>>, <<"cmake.build", 0>>, <<"cmake.install", 0>>>>

GetDependencyRuns == {r \in Runs : call[r].op = "getDependency"}

\* ----------------------------------------------------------------- C1
\* C1: in every getDependency run, dependency.buildInstall is invoked only
\* after the promise of dependency.download has resolved, and a run whose
\* download rejected never invokes buildInstall.
C1_BuildInstallAfterDownload ==
    \A r \in GetDependencyRuns :
        LET t == trace[r]
        IN  /\ \A i \in 1..Len(t) :
                   Is(t[i], "call", "dep.buildInstall")
                       => HasBefore(t, i, "ok", "dep.download", 0)
            /\ Has(t, "err", "dep.download") => ~Has(t, "call", "dep.buildInstall")

\* A run has invoked buildInstall after a download that fetched and resolved.
C1_Witness ==
    \E r \in GetDependencyRuns :
        /\ Has(trace[r], "call", "dep.buildInstall")
        /\ Has(trace[r], "ok", "repo.download")

\* ----------------------------------------------------------------- C2
\* C2: CMakeDependency.buildInstall invokes configure, build, install in
\* that order, each at most once and each only after the previous one has
\* resolved; a rejected configure prevents build and install, a rejected
\* build prevents install.
C2_CMakePipelineOrder ==
    \A r \in GetDependencyRuns :
        LET t == trace[r]
        IN  /\ IsPrefix(CallsOf(t, BackendSteps), BackendCalls)
            /\ \A i \in 1..Len(t) :
                   /\ Is(t[i], "call", "cmake.build")
                          => HasBefore(t, i, "ok", "cmake.configure", 0)
                   /\ Is(t[i], "call", "cmake.install")
                          => HasBefore(t, i, "ok", "cmake.build", 0)
            /\ Has(t, "err", "cmake.configure")
                   => ~Has(t, "call", "cmake.build") /\ ~Has(t, "call", "cmake.install")
            /\ Has(t, "err", "cmake.build") => ~Has(t, "call", "cmake.install")

\* A run has invoked all three backend steps.
C2_Witness ==
    \E r \in GetDependencyRuns :
        CallsOf(trace[r], BackendSteps) = BackendCalls

\* ----------------------------------------------------------------- C3
\* C3: when the source directory exists as getDependency calls
\* dependency.download, the download invokes neither repository.download
\* nor repository.patch, starts no process, leaves the filesystem as it
\* was, and resolves.
C3_ExistingDirectoryNoOp ==
    [][\A r \in Runs :
          ( /\ pc[r] = "idle"
            /\ call'[r].op = "getDependency"
            /\ dirForDependency(call'[r].name) \in dirs )
          => /\ CallsOf(trace'[r], RepositoryOps) = <<>>
             /\ ~\E i \in 1..Len(trace'[r]) : trace'[r][i].k = "exec"
             /\ Has(trace'[r], "ok", "dep.download")
             /\ ~Has(trace'[r], "err", "dep.download")
             /\ <<dirs, patchFiles, applied>>' = <<dirs, patchFiles, applied>>]_vars

\* A second call, made after the directory was created, has resolved its
\* download without any repository operation.
C3_Witness ==
    \E r \in GetDependencyRuns :
        /\ Has(trace[r], "ok", "dep.download")
        /\ CallsOf(trace[r], RepositoryOps) = <<>>
        /\ dirForDependency(call[r].name) \in dirs

\* ----------------------------------------------------------------- C4
\* C4: when the source directory is absent, RepositoryDependency.download
\* invokes repository.patch once per entry of patches, in array order, each
\* only after the previous patch call has resolved, the first only after
\* repository.download has resolved.
C4_PatchOrder ==
    \A r \in GetDependencyRuns :
        LET t == trace[r]
            patches == DependencyPatches(call[r].name)
            calls == CallsOf(t, {"repo.patch"})
        IN  /\ IsPrefix(calls, PatchCalls(call[r].name))
            /\ \A i \in 1..Len(t) :
                   Is(t[i], "call", "repo.patch") =>
                       LET k == Len(CallsOf(SubSeq(t, 1, i), {"repo.patch"}))
                       IN  /\ HasBefore(t, i, "ok", "repo.download", 0)
                           /\ k > 1 => HasBefore(t, i, "ok", "repo.patch", patches[k - 1])
            /\ ( Has(t, "call", "repo.download") /\ Has(t, "ok", "dep.download") )
                   => calls = PatchCalls(call[r].name)

\* A download of a dependency with at least two patches has resolved after
\* fetching.
C4_Witness ==
    \E r \in GetDependencyRuns :
        /\ Has(trace[r], "call", "repo.download")
        /\ Has(trace[r], "ok", "dep.download")
        /\ Len(DependencyPatches(call[r].name)) >= 2
        /\ CallsOf(trace[r], {"repo.patch"}) = PatchCalls(call[r].name)

\* ----------------------------------------------------------------- C5
\* C5: once repository.download or a patch has rejected inside
\* RepositoryDependency.download, the run invokes nothing more (no later
\* patch, no buildInstall, no backend step), download rejects and the run
\* has failed.
C5_DownloadFailureAborts ==
    \A r \in GetDependencyRuns :
        LET t == trace[r]
        IN  \A i \in 1..Len(t) :
                ( t[i].k = "err" /\ t[i].op \in RepositoryOps )
                => /\ \A j \in (i + 1)..Len(t) : t[j].k = "err"
                   /\ Has(t, "err", "dep.download")
                   /\ ~Has(t, "call", "dep.buildInstall")
                   /\ CallsOf(t, BackendSteps) = <<>>
                   /\ pc[r] = "Failed"
                   /\ result[r].status = "rejected"

\* The first of several patches has rejected.
C5_Witness ==
    \E r \in GetDependencyRuns :
        /\ Len(DependencyPatches(call[r].name)) >= 2
        /\ \E i \in 1..Len(trace[r]) :
               /\ Is(trace[r][i], "err", "repo.patch")
               /\ trace[r][i].patch = DependencyPatches(call[r].name)[1]

\* ----------------------------------------------------------------- C6
\* A JavaScript value used as a flag.
Truthy(v) == v.defined /\ v.val = TRUE

\* C6: the options CMakeDependency.buildInstall passes to configure have
\* install prefix = project.dirForDependencyInstall(build), a release flag
\* that is set exactly when build.isDeploy is, target platform =
\* build.platform and config options = descriptor.configOptions.
C6_ConfigureOptions ==
    \A r \in GetDependencyRuns :
        \A i \in 1..Len(trace[r]) :
            Is(trace[r][i], "call", "cmake.configure") =>
                LET o == trace[r][i].opts
                IN  /\ o.installPrefix = dirForDependencyInstall(build)
                    /\ Truthy(o.release) = build.isDeploy
                    /\ o.platform = build.platform
                    /\ o.configOptions = ConfigOptions(call[r].name)

\* ----------------------------------------------------------------- C7
\* What a step appends to the trace of run r.
NewEvents(r) == SubSeq(trace'[r], Len(trace[r]) + 1, Len(trace'[r]))

\* C7: a call of Repository.patch starts the apply process exactly when the
\* target directory and the patch file both exist at the call; when either
\* is missing no process is started, the repository contents stay as they
\* were and the call resolves without error.  The contents of a repository
\* change only where such a process was started.
C7_PatchSkipOnMissing ==
    [][ /\ \A r \in Runs :
              LET new == NewEvents(r)
                  both == /\ dirForDependency(call'[r].name) \in dirs
                          /\ new[1].patch \in patchFiles
              IN  ( Len(trace'[r]) > Len(trace[r]) /\ Is(new[1], "call", "repo.patch") )
                  => /\ both <=> ( Len(new) >= 2 /\ Is(new[2], "exec", "git.apply")
                                      /\ new[2].patch = new[1].patch )
                     /\ ~both => /\ new = <<Call("repo.patch", new[1].patch),
                                            Ok("repo.patch", new[1].patch)>>
                                 /\ <<dirs, patchFiles, applied>>'
                                        = <<dirs, patchFiles, applied>>
        /\ \A n \in Dependencies :
              applied'[n] # applied[n]
              => \E r \in Runs :
                     /\ pc[r] = "apply" /\ call[r].name = n
                     /\ Is(trace[r][Len(trace[r])], "exec", "git.apply")
                     /\ dirForDependency(n) \in dirs
                     /\ CurrentPatch(r) \in patchFiles
                     /\ applied'[n] = applied[n] \cup {CurrentPatch(r)} ]_vars

\* A patch call was skipped because the directory is missing although the
\* patch file exists.
C7_Witness ==
    \E r \in Runs :
        /\ call[r].op = "patch"
        /\ dirForDependency(call[r].name) \notin dirs
        /\ call[r].patch \in patchFiles
        /\ trace[r] = <<Call("repo.patch", call[r].patch), Ok("repo.patch", call[r].patch)>>
        /\ result[r] = Resolved

\* ----------------------------------------------------------------- C8
\* C8: a getDependency run for a CMakeDependency that found the source
\* directory absent and in which no step failed has, once its promise has
\* resolved, made exactly the calls repository.download, repository.patch
\* for each patch in order, configure, build, install, and the source
\* directory exists.
C8_EndToEnd ==
    \A r \in GetDependencyRuns :
        ( /\ DependencyKind(call[r].name) = "CMakeDependency"
          /\ pc[r] = "Ready"
          /\ Has(trace[r], "call", "repo.download")
          /\ ~\E i \in 1..Len(trace[r]) : trace[r][i].k = "err" )
        => /\ CallsOf(trace[r], RepositoryOps \cup BackendSteps)
                  = <<<<"repo.download", 0>>>> \o PatchCalls(call[r].name) \o BackendCalls
           /\ dirForDependency(call[r].name) \in dirs
           /\ result[r] = Resolved

\* Such a run has resolved.
C8_Witness ==
    \E r \in GetDependencyRuns :
        /\ DependencyKind(call[r].name) = "CMakeDependency"
        /\ pc[r] = "Ready"
        /\ Has(trace[r], "call", "repo.download")
        /\ Has(trace[r], "exec", "git.apply")

\* ----------------------------------------------------------------- C9
\* C9: when a process (clone, checkout, apply, configure, build, install)
\* of a getDependency run rejects with e, the run invokes and starts
\* nothing after it and its promise is rejected with that same e; no step
\* ever removes a directory or undoes an applied patch.
C9_ErrorPropagation ==
    /\ [](\A r \in GetDependencyRuns :
             \A i \in 1..Len(trace[r]) :
                 ( trace[r][i].k = "err" /\ trace[r][i].op \in Processes )
                 => /\ \A j \in (i + 1)..Len(trace[r]) : trace[r][j].k = "err"
                    /\ pc[r] = "Failed"
                    /\ result[r] = Rejected(ErrorOf(trace[r][i].op, trace[r][i].patch)))
    /\ [][ /\ dirs \subseteq dirs'
           /\ patchFiles' = patchFiles
           /\ \A n \in Dependencies : applied[n] \subseteq applied'[n] ]_vars

\* A run has failed in the build step, after configure created the build
\* directory.
C9_Witness ==
    \E r \in GetDependencyRuns :
        /\ Has(trace[r], "err", "cmake.build")
        /\ result[r] = Rejected(ErrorOf("cmake.build", 0))
        /\ dirForDependencyBuild(call[r].name, build) \in dirs

\* ---------------------------------------------------------------- C10
\* The state of the run's state machine at each suspension point.
RunState(r) ==
    CASE pc[r] = "idle" -> "NotStarted"
      [] pc[r] \in {"clone", "cloned", "checkout", "patching", "apply"} -> "Downloading"
      [] pc[r] = "downloaded" -> "Downloaded"
      [] pc[r] \in BackendSteps \cup {"built"} -> "Building"
      [] pc[r] = "Ready" -> "Ready"
      [] pc[r] = "Failed" -> "Failed"
      [] OTHER -> "none"

\* The states a run has entered so far, read from what it logged and from
\* how download and buildInstall settled.
StateOf(e) ==
    CASE Is(e, "log", "Downloading") -> "Downloading"
      [] Is(e, "ok", "dep.download") -> "Downloaded"
      [] Is(e, "log", "Building") -> "Building"
      [] Is(e, "log", "Ready") -> "Ready"
      [] OTHER -> "Failed"
IsTransition(e) ==
    \/ e.k = "log"
    \/ Is(e, "ok", "dep.download")
    \/ Is(e, "err", "dep.download")
    \/ Is(e, "err", "dep.buildInstall")
StatePath(t) ==
    LET m == SelectSeq(t, IsTransition)
    IN  <<"NotStarted">> \o [i \in 1..Len(m) |-> StateOf(m[i])]

Transitions ==
    { <<"NotStarted", "Downloading">>, <<"Downloading", "Downloaded">>,
      <<"Downloaded", "Building">>, <<"Building", "Ready">>,
      <<"Downloading", "Failed">>, <<"Building", "Failed">> }

\* C10: a getDependency run goes NotStarted -> Downloading -> Downloaded ->
\* Building -> Ready without skipping or going back; Failed is entered only
\* from Downloading or Building and only when a step rejected; nothing
\* happens in the run after Ready or Failed.
C10_StateMachine ==
    \A r \in Runs :
        call[r].op \in {"none", "getDependency"} =>
            LET t == trace[r]
                path == StatePath(t)
                last == path[Len(path)]
            IN  /\ \A i \in 1..(Len(path) - 1) : <<path[i], path[i + 1]>> \in Transitions
                /\ RunState(r) = last
                /\ last = "Failed" <=> result[r].status = "rejected"
                /\ last = "Ready" <=> result[r].status = "resolved"
                /\ last = "Failed" =>
                       \E i \in 1..Len(t) : t[i].k = "err" /\ t[i].op \in Processes
                /\ last \in {"Ready", "Failed"} => IsTransition(t[Len(t)])

\* A run has failed from Building.
C10_Witness ==
    \E r \in GetDependencyRuns :
        StatePath(trace[r]) =
            <<"NotStarted", "Downloading", "Downloaded", "Building", "Failed">>

\* ---------------------------------------------------------------- C11
\* C11: RepositoryDependency.buildInstall invokes no repository or backend
\* operation, starts no process, changes nothing on the filesystem and
\* returns a promise that resolves; so a getDependency run for a
\* RepositoryDependency whose download resolved does not fail.
C11_SourceBuildInstallNoOp ==
    /\ [](\A r \in GetDependencyRuns :
             DependencyKind(call[r].name) = "RepositoryDependency" =>
                 LET t == trace[r]
                 IN  /\ \A i \in 1..Len(t) :
                            Is(t[i], "call", "dep.buildInstall") =>
                                /\ \A j \in (i + 1)..Len(t) : t[j].k \notin {"call", "exec"}
                                /\ i < Len(t) /\ Is(t[i + 1], "return", "promise")
                     /\ Has(t, "ok", "dep.download") => pc[r] # "Failed")
    /\ [][\A r \in Runs :
             ( /\ pc[r] = "downloaded" /\ pc'[r] # "downloaded"
               /\ DependencyKind(call[r].name) = "RepositoryDependency" )
             => <<dirs, patchFiles, applied>>' = <<dirs, patchFiles, applied>>]_vars

\* ---------------------------------------------------------------- C12
\* The git processes that bring an existing working copy up to date; the
\* checkout of the configured branch is counted among them.
UpdateProcesses == {"git.pull", "git.fetch", "git.checkout"}

\* C12: a call of Repository.download that has resolved has cloned the
\* repository (destination absent) or updated the source in place
\* (destination present), with or without a configured branch.
C12_DownloadClonesOrUpdates ==
    \A r \in Runs :
        ( call[r].op = "download" /\ result[r] = Resolved )
        => \/ Has(trace[r], "exec", "git.clone")
           \/ \E i \in 1..Len(trace[r]) :
                  trace[r][i].k = "exec" /\ trace[r][i].op \in UpdateProcesses

\* ---------------------------------------------------------------- C13
\* The progress lines a run has logged, in order.
LogLines(t) ==
    LET l == SelectSeq(t, LAMBDA e : e.k = "log")
    IN  [i \in 1..Len(l) |-> l[i].op]
CountOf(t, k, op) == Len(SelectSeq(t, LAMBDA e : Is(e, k, op)))

\* C13: the progress log of a getDependency run is a prefix of
\* Downloading, Building, Ready.  Downloading is logged before download is
\* invoked; Building is logged only after download resolved with every
\* repository and patch call it made settled, and Ready only after
\* buildInstall resolved (after install, for a CMakeDependency); in a
\* settled run Building is logged iff download resolved and Ready iff
\* buildInstall resolved, so the last line of a failed run names the stage
\* that failed.
C13_ProgressLog ==
    \A r \in GetDependencyRuns :
        LET t == trace[r]
            lines == LogLines(t)
        IN  /\ IsPrefix(lines, <<"Downloading", "Building", "Ready">>)
            /\ t[1] = Log("Downloading")
            /\ \A i \in 1..Len(t) :
                   /\ Is(t[i], "log", "Building") =>
                          /\ t[i - 1] = Ok("dep.download", 0)
                          /\ CountOf(SubSeq(t, 1, i), "call", "repo.download")
                                 = CountOf(SubSeq(t, 1, i), "ok", "repo.download")
                          /\ CountOf(SubSeq(t, 1, i), "call", "repo.patch")
                                 = CountOf(SubSeq(t, 1, i), "ok", "repo.patch")
                   /\ Is(t[i], "log", "Ready") =>
                          /\ t[i - 1] = Ok("dep.buildInstall", 0)
                          /\ DependencyKind(call[r].name) = "CMakeDependency"
                                 => HasBefore(t, i, "ok", "cmake.install", 0)
            /\ pc[r] \in {"Ready", "Failed"} =>
                   /\ Has(t, "log", "Building") <=> Has(t, "ok", "dep.download")
                   /\ Has(t, "log", "Ready") <=> Has(t, "ok", "dep.buildInstall")
            /\ pc[r] = "Failed" =>
                   /\ lines = <<"Downloading">> => Has(t, "err", "dep.download")
                   /\ lines = <<"Downloading", "Building">> => Has(t, "err", "dep.buildInstall")
                   /\ lines # <<"Downloading", "Building", "Ready">>

\* A run has failed in its build stage: its log ends with Building.
C13_Witness ==
    \E r \in GetDependencyRuns :
        /\ pc[r] = "Failed"
        /\ LogLines(trace[r]) = <<"Downloading", "Building">>
        /\ Has(trace[r], "err", "cmake.install")

\* ---------------------------------------------------------------- C14
\* Run q has failed in its download and the source directory is there.
FailedPartial(q) ==
    /\ call[q].op = "getDependency"
    /\ pc[q] = "Failed"
    /\ Has(trace[q], "err", "dep.download")
    /\ dirForDependency(call[q].name) \in dirs

\* C14: a getDependency run started for the same dependency after a run
\* that failed in download and left the source directory in place makes no
\* repository.download and no repository.patch call, has download resolve,
\* and goes on to call buildInstall.
C14_RetrySkipsDownload ==
    [][\A r \in Runs :
          /\ ( /\ pc[r] = "idle"
               /\ call'[r].op = "getDependency"
               /\ \E q \in Runs \ {r} : FailedPartial(q) /\ call[q].name = call'[r].name )
             => /\ pc'[r] = "downloaded"
                /\ trace'[r] = <<Log("Downloading"), Call("dep.download", 0),
                                 Ok("dep.download", 0)>>
          /\ ( pc[r] = "downloaded" /\ pc'[r] # "downloaded" )
             => /\ Has(trace'[r], "call", "dep.buildInstall")
                /\ CallsOf(trace'[r], RepositoryOps) = CallsOf(trace[r], RepositoryOps) ]_vars

\* After a run whose first patch rejected, the next run for the same
\* dependency has called buildInstall without any repository operation.
C14_Witness ==
    \E q, r \in Runs :
        /\ q # r
        /\ FailedPartial(q)
        /\ Has(trace[q], "err", "repo.patch")
        /\ call[r].op = "getDependency" /\ call[r].name = call[q].name
        /\ Has(trace[r], "call", "dep.buildInstall")
        /\ CallsOf(trace[r], RepositoryOps) = <<>>

\* ---------------------------------------------------------------- C15
\* C15: no lock is taken and the existence check is not atomic with the
\* fetch: a getDependency call that finds the source directory absent
\* starts git clone into it whatever the other call is doing, so two
\* concurrent runs for one dependency can both find the directory absent
\* and both clone (and both apply the patches) into the same directory.
C15_CheckThenFetchRace ==
    [][\A r \in Runs :
          ( /\ pc[r] = "idle"
            /\ call'[r].op = "getDependency"
            /\ dirForDependency(call'[r].name) \notin dirs )
          => /\ pc'[r] = "clone"
             /\ trace'[r] = <<Log("Downloading"), Call("dep.download", 0),
                              Call("repo.download", 0), Exec("git.clone", 0)>>
             /\ dirs' = dirs ]_vars

\* Two runs for the same dependency have both started git clone and both
\* started git apply in the same directory.
C15_Witness ==
    \E q, r \in GetDependencyRuns :
        /\ q # r
        /\ call[q].name = call[r].name
        /\ Has(trace[q], "exec", "git.clone") /\ Has(trace[r], "exec", "git.clone")
        /\ Has(trace[q], "exec", "git.apply") /\ Has(trace[r], "exec", "git.apply")
        /\ pc[q] = "apply" /\ pc[r] = "apply"

\* ---------------------------------------------------------------- C16
\* The install prefixes a run has passed to configure.
PrefixesOf(r) ==
    {trace[r][i].opts.installPrefix :
        i \in {j \in 1..Len(trace[r]) : Is(trace[r][j], "call", "cmake.configure")}}

\* C16: concurrent getDependency runs for different CMakeDependencies get
\* the same install prefix, the install directory of the build
\* configuration; nothing in the core keeps their backend steps apart.
C16_SharedInstallPrefix ==
    \A q, r \in GetDependencyRuns :
        ( q # r /\ call[q].name # call[r].name )
        => /\ PrefixesOf(q) \cup PrefixesOf(r) \subseteq {dirForDependencyInstall(build)}
           /\ \A a \in PrefixesOf(q), b \in PrefixesOf(r) : a = b

\* The install steps of two different dependencies are in flight together,
\* both configured with the same prefix.
C16_Witness ==
    \E q, r \in GetDependencyRuns :
        /\ call[q].name # call[r].name
        /\ pc[q] = "cmake.install" /\ pc[r] = "cmake.install"
        /\ PrefixesOf(q) = PrefixesOf(r)
        /\ PrefixesOf(q) # {}

\* ---------------------------------------------------------------- C17
\* The process a run waits for at each of its suspension points.
ProcessAt(p) ==
    CASE p = "clone" -> "git.clone"
      [] p = "checkout" -> "git.checkout"
      [] p = "apply" -> "git.apply"
      [] OTHER -> p
Waiting(r) == ProcessAt(pc[r]) \in Processes

\* C17: when every started process ends, every getDependency run reaches
\* Ready or Failed; while the process a run waits for has not ended the run
\* does nothing at all (no timeout, no cancellation): it moves on only with
\* the settlement of that process.
C17_Termination ==
    /\ \A r \in Runs : (pc[r] # "idle") ~> (pc[r] \in {"Ready", "Failed"})
    /\ [][\A r \in Runs :
             ( Waiting(r) /\ <<pc[r], trace[r], result[r]>>' # <<pc[r], trace[r], result[r]>> )
             => /\ Len(trace'[r]) > Len(trace[r])
                /\ trace'[r][Len(trace[r]) + 1].k \in {"ok", "err"}
                /\ trace'[r][Len(trace[r]) + 1].op = ProcessAt(pc[r]) ]_vars

\* A run has reached Ready after six processes: clone, checkout, apply and
\* the three backend steps.
C17_Witness ==
    \E r \in GetDependencyRuns :
        /\ pc[r] = "Ready"
        /\ \A p \in {"git.clone", "git.checkout", "git.apply"} \cup BackendSteps :
               Has(trace[r], "ok", p)

\* ---------------------------------------------------------------- C18
BranchConfigured(name) == RepositoryBranch(name) # ""
\* The runs that called repository.download, from getDependency or directly.
DownloadCallers == {r \in Runs : Has(trace[r], "call", "repo.download")}

\* C18: GitRepository.download starts git clone exactly when the destination
\* is absent at the call, and never elsewhere; with a branch it starts git
\* checkout once, after the clone (if any) ended well, and a failed clone
\* means no checkout and a rejected download; without a branch it starts no
\* checkout.
C18_GitDownload ==
    /\ [][\A r \in Runs :
             /\ Has(NewEvents(r), "call", "repo.download")
                => ( Has(NewEvents(r), "exec", "git.clone")
                     <=> dirForDependency(call'[r].name) \notin dirs )
             /\ Has(NewEvents(r), "exec", "git.clone")
                => Has(NewEvents(r), "call", "repo.download") ]_vars
    /\ [](\A r \in DownloadCallers :
            LET t == trace[r]
                branch == BranchConfigured(call[r].name)
            IN  /\ CountOf(t, "exec", "git.clone") <= 1
                /\ ~branch => ~Has(t, "exec", "git.checkout")
                /\ branch =>
                     /\ CountOf(t, "exec", "git.checkout") <= 1
                     /\ Has(t, "ok", "repo.download")
                        => CountOf(t, "exec", "git.checkout") = 1
                     /\ \A i \in 1..Len(t) :
                          ( Is(t[i], "exec", "git.checkout") /\ Has(t, "exec", "git.clone") )
                          => HasBefore(t, i, "ok", "git.clone", 0)
                /\ Has(t, "err", "git.clone")
                   => /\ ~Has(t, "exec", "git.checkout")
                      /\ Has(t, "err", "repo.download")
                      /\ ~Has(t, "ok", "repo.download"))

\* A direct download onto an existing destination with a branch configured:
\* no clone, one checkout, and download resolved.
C18_Witness ==
    \E r \in Runs :
        /\ call[r].op = "download"
        /\ BranchConfigured(call[r].name)
        /\ trace[r] = <<Call("repo.download", 0), Exec("git.checkout", 0),
                        Ok("git.checkout", 0), Ok("repo.download", 0)>>

\* ---------------------------------------------------------------- C19
\* The runs of getDependency that have invoked backend.configure.
Configuring == {r \in GetDependencyRuns : Has(trace[r], "call", "cmake.configure")}
\* The patches of a dependency whose file is there to be applied.
PresentPatches(name) ==
    {DependencyPatches(name)[i] : i \in {j \in 1..Len(DependencyPatches(name)) :
                                            DependencyPatches(name)[j] \in patchFiles}}

TemplateRuns == {r \in Runs : call[r].op = "template"}

\* C20: instantiateRepositoryTemplate downloads into destination/.template,
\* starts instantiation only after the download resolved and the removal
\* only after the instantiation finished; its promise resolves once the
\* removal was attempted, whether or not it succeeded; when the download or
\* the instantiation rejects, the promise rejects with that error, no
\* removal is attempted and the directory is left as it is.
C20_TemplateOrder ==
    /\ [](\A r \in TemplateRuns :
            LET t == trace[r]
            IN  /\ Is(t[1], "call", "repo.download")
                /\ \A i \in 1..Len(t) :
                     /\ Is(t[i], "call", "instantiateTemplate")
                        => /\ Is(t[i - 1], "ok", "repo.download")
                           /\ TemplateLocation(TemplateDestination) \in dirs
                              \/ Has(t, "ok", "rimraf")
                     /\ Is(t[i], "exec", "rimraf")
                        => Is(t[i - 1], "ok", "instantiateTemplate")
                /\ result[r].status = "resolved"
                   <=> ( Has(t, "ok", "rimraf") \/ Has(t, "err", "rimraf") )
                /\ result[r].status = "rejected"
                   <=> ( Has(t, "err", "repo.download") \/ Has(t, "err", "instantiateTemplate") )
                /\ result[r].status = "rejected"
                   => /\ ~Has(t, "exec", "rimraf")
                      /\ IF Is(t[Len(t)], "err", "repo.download")
                         THEN /\ t[Len(t) - 1].k = "err"
                              /\ result[r].error = ErrorOf(t[Len(t) - 1].op, 0)
                         ELSE result[r].error = ErrorOf("instantiateTemplate", 0)
                /\ result[r].status # "pending" <=> pc[r] = "done")
    /\ [][\A r \in Runs :
             ( call[r].op = "template" /\ TemplateLocation(TemplateDestination) \in dirs
               /\ TemplateLocation(TemplateDestination) \notin dirs' )
             => /\ pc[r] = "rimraf"
                /\ result'[r] = Resolved ]_vars

\* One instantiation resolved although the removal failed, leaving
\* .template in place.
C20_Witness ==
    \E r \in TemplateRuns :
        /\ result[r] = Resolved
        /\ Has(trace[r], "err", "rimraf")
        /\ Has(trace[r], "ok", "git.clone")
        /\ TemplateLocation(TemplateDestination) \in dirs
====
